---- MODULE Spec2Model ----
(***************************************************************************)
(* A model of src/embeddings.ts: the module-level configuration resolved   *)
(* from process.env when the module is loaded, the embed / embedSingle     *)
(* calls with their batching protocol against the remote embeddings        *)
(* provider, the read-only getters, and cosineSimilarity.                  *)
(*                                                                         *)
(* JavaScript values are modelled as follows.  A string is a TLA+ string;  *)
(* the value undefined is the distinguished string UNDEFINED.  The client  *)
(* is a record, null being the record NULL.  Numbers that can meet         *)
(* non-numbers in one place (a property lookup on an object) are boxed as  *)
(* [type |-> "number", value |-> n].                                       *)
(***************************************************************************)
EXTENDS Integers, Sequences, FiniteSets, TLC

VARIABLES
    env,              \* process.env: the four settings the module reads
    API_KEY,          \* const API_KEY (line 11)
    BASE_URL,         \* const BASE_URL (line 13)
    EMBEDDING_MODEL,  \* const EMBEDDING_MODEL (lines 7-8)
    client,           \* const client (lines 23-34), NULL when there is no key
    stderr,           \* what console.error has written, oldest first
    kind,             \* per call: "embed" or "embedSingle"
    pc,               \* per call: "idle", "awaiting", "returned", "thrown"
    texts,            \* per call: embed's parameter
    i,                \* per call: the loop variable of embed (line 70)
    results,          \* per call: the local results (line 68)
    outcome,          \* per call: what the caller's promise settled to
    requests,         \* per call: the provider invocations made, oldest first
    responses,        \* per call: what the provider answered, oldest first
    repertoire,       \* what the provider does in this run: behaviours, errors
    getter,           \* the last getter call and the value it returned
    cos               \* the last cosineSimilarity call and how it ended

configVars == <<env, API_KEY, BASE_URL, EMBEDDING_MODEL, client>>
callVars == <<kind, pc, texts, i, results, outcome, requests, responses, repertoire>>
vars == <<env, API_KEY, BASE_URL, EMBEDDING_MODEL, client, stderr, kind, pc,
          texts, i, results, outcome, requests, responses, repertoire, getter, cos>>

----------------------------------------------------------------------------
(* Bounds of the exploration.                                              *)

\* The longest input of an embed call.
MaxLen == 250
\* The longest vector given to cosineSimilarity.
MaxDim == 3
\* The number of calls in progress together.
MaxCalls == 2

----------------------------------------------------------------------------
(* JavaScript values.                                                      *)

UNDEFINED == "<undefined>"
NULL == [null |-> TRUE]

\* Faulty variant: only undefined is falsy (?? in place of ||).
Truthy_MutDefined(v) == v # UNDEFINED
\* ToBoolean of a string-or-undefined value: undefined and "" are falsy.
Truthy(v) == v # UNDEFINED /\ v # ""

\* a || b
Or(a, b) == IF Truthy(a) THEN a ELSE b

Num(n) == [type |-> "number", value |-> n]

Min(a, b) == IF a < b THEN a ELSE b

----------------------------------------------------------------------------
(* Module-level configuration, lines 4-34.                                 *)

OPENAI_DEFAULT_URL == "https://api.openai.com/v1"
OPENROUTER_URL == "https://openrouter.ai/api/v1"
DEFAULT_MODEL == "openai/text-embedding-3-small"

OPENROUTER_API_KEY_of(e) == e.OPENROUTER_API_KEY
OPENAI_API_KEY_of(e) == e.OPENAI_API_KEY
OPENAI_BASE_URL_of(e) == Or(e.OPENAI_BASE_URL, OPENAI_DEFAULT_URL)
EMBEDDING_MODEL_of(e) == Or(e.QMD_EMBEDDING_MODEL, DEFAULT_MODEL)

\* Faulty variant: the secondary credential tried first.
API_KEY_MutSecondaryFirst(e) == Or(OPENROUTER_API_KEY_of(e), OPENAI_API_KEY_of(e))
\* const API_KEY = OPENAI_API_KEY || OPENROUTER_API_KEY
API_KEY_of(e) == Or(OPENAI_API_KEY_of(e), OPENROUTER_API_KEY_of(e))

\* const BASE_URL = OPENAI_API_KEY ? OPENAI_BASE_URL : "https://openrouter.ai/api/v1"
BASE_URL_of(e) ==
    IF Truthy(OPENAI_API_KEY_of(e)) THEN OPENAI_BASE_URL_of(e) ELSE OPENROUTER_URL

OPENROUTER_HEADERS ==
    { <<"HTTP-Referer", "https://github.com/qmd">>,
      <<"X-Title", "QMD Knowledge Base">> }

\* Faulty variant: the headers attached whenever the secondary key is set.
defaultHeaders_MutRouterSet(e) ==
    IF Truthy(OPENROUTER_API_KEY_of(e)) THEN OPENROUTER_HEADERS ELSE {}
\* ...(OPENROUTER_API_KEY && !OPENAI_API_KEY && { defaultHeaders: {...} })
defaultHeaders_of(e) ==
    IF Truthy(OPENROUTER_API_KEY_of(e)) /\ ~Truthy(OPENAI_API_KEY_of(e))
    THEN OPENROUTER_HEADERS
    ELSE {}

\* Faulty variant: the client built even without a key.
client_MutAlways(e) ==
    [apiKey |-> API_KEY_of(e), baseURL |-> BASE_URL_of(e),
     defaultHeaders |-> defaultHeaders_of(e)]
\* const client = API_KEY ? new OpenAI({...}) : null
client_of(e) ==
    IF Truthy(API_KEY_of(e))
    THEN [apiKey |-> API_KEY_of(e), baseURL |-> BASE_URL_of(e),
          defaultHeaders |-> defaultHeaders_of(e)]
    ELSE NULL

NO_KEY_WARNING ==
    [text |-> "Warning: No API key set (either OPENAI_API_KEY or OPENROUTER_API_KEY). Embeddings will not be generated."]

\* if (!API_KEY) { console.error(...) }
LoadLog(e) == IF ~Truthy(API_KEY_of(e)) THEN <<NO_KEY_WARNING>> ELSE <<>>

----------------------------------------------------------------------------
(* The dimension table and the getters, lines 36-50 and 130-132.           *)

\* The own properties of the object literal MODEL_DIMENSIONS.
MODEL_DIMENSIONS ==
    [m \in { "openai/text-embedding-3-small", "openai/text-embedding-3-large",
             "cohere/embed-english-v3.0", "cohere/embed-multilingual-v3.0" } |->
        CASE m = "openai/text-embedding-3-small" -> 1536
          [] m = "openai/text-embedding-3-large" -> 3072
          [] m = "cohere/embed-english-v3.0" -> 1024
          [] m = "cohere/embed-multilingual-v3.0" -> 1024]

\* MODEL_DIMENSIONS is a plain object literal, so a property read that finds
\* no own property goes on to Object.prototype.
ObjectPrototype ==
    [p \in { "constructor", "toString", "toLocaleString", "valueOf",
             "hasOwnProperty", "isPrototypeOf", "propertyIsEnumerable",
             "__proto__" } |->
        IF p = "__proto__"
        THEN [type |-> "object", name |-> "Object.prototype"]
        ELSE [type |-> "function", name |-> IF p = "constructor" THEN "Object" ELSE p]]

\* MODEL_DIMENSIONS[key]
Lookup(key) ==
    IF key \in DOMAIN MODEL_DIMENSIONS THEN Num(MODEL_DIMENSIONS[key])
    ELSE IF key \in DOMAIN ObjectPrototype THEN ObjectPrototype[key]
    ELSE [type |-> "undefined"]

\* ToBoolean of a looked-up value: undefined and 0 are falsy, objects and
\* functions are truthy.
TruthyValue(v) ==
    /\ v.type # "undefined"
    /\ (v.type = "number" => v.value # 0)

\* return MODEL_DIMENSIONS[EMBEDDING_MODEL] || 1536
getEmbeddingDimensions(model) ==
    IF TruthyValue(Lookup(model)) THEN Lookup(model) ELSE Num(1536)

\* Faulty variant: an empty key counted as a credential.
isEmbeddingsEnabled_MutDefined(c) == API_KEY # UNDEFINED
\* return !!client
isEmbeddingsEnabled(c) == c # NULL

\* return EMBEDDING_MODEL
getModelName(model) == model

----------------------------------------------------------------------------
(* The remote embeddings provider (client.embeddings.create), an external  *)
(* collaborator: given a model and a list of strings it answers with a     *)
(* list of {index, embedding} items in an order of its choosing, or fails. *)

\* The vector the provider computes for text t in answer to call c.
Vector(c, t) == <<c, t>>

\* One item per input string, in input order: index is 0-based.
InOrder(c, input) ==
    [j \in 1..Len(input) |-> [index |-> j - 1, embedding |-> Vector(c, input[j])]]

Reverse(s) == [j \in 1..Len(s) |-> s[Len(s) + 1 - j]]

RotateLeft(s) == IF Len(s) = 0 THEN s ELSE Append(Tail(s), Head(s))

\* The provider's behaviours.  The first three keep the provider's contract
\* (one item per input string, every index once); the others break it.
ConformingBehaviours == { "inOrder", "reversed", "rotated" }
Behaviours == ConformingBehaviours \cup { "short", "extra", "dupIndex" }

\* response.data for the request (c, input) under behaviour b.
ProviderData(c, input, b) ==
    CASE b = "inOrder" -> InOrder(c, input)
      [] b = "reversed" -> Reverse(InOrder(c, input))
      [] b = "rotated" -> RotateLeft(InOrder(c, input))
      [] b = "short" -> Tail(Reverse(InOrder(c, input)))
      [] b = "extra" ->
            <<[index |-> Len(input), embedding |-> Vector(c, 0)]>>
                \o Reverse(InOrder(c, input))
      [] b = "dupIndex" ->
            [j \in 1..Len(input) |->
                [index |-> IF j = 2 THEN 0 ELSE j - 1,
                 embedding |-> Vector(c, input[j])]]

\* The errors client.embeddings.create rejects with.
ProviderErrors ==
    { [name |-> "RateLimitError", status |-> 429],
      [name |-> "APIConnectionError", status |-> 0] }

----------------------------------------------------------------------------
(* embed, lines 57-89, and embedSingle, lines 96-99.                       *)

\* const BATCH_SIZE = 100
BATCH_SIZE == 100

\* new Error("OPENROUTER_API_KEY not configured")
NOT_CONFIGURED == [name |-> "Error", message |-> "OPENROUTER_API_KEY not configured"]

\* Faulty variant: the end taken inclusive, so batches overlap.
Slice_MutOverlap(s, start, end) ==
    SubSeq(s, Min(start, Len(s)) + 1, Min(end + 1, Len(s)))
\* s.slice(start, end) for 0 <= start <= end: 0-based, end exclusive, both
\* clamped to the length.
Slice(s, start, end) == SubSeq(s, Min(start, Len(s)) + 1, Min(end, Len(s)))

\* The comparator (a, b) => a.index - b.index orders a before b exactly when
\* it is negative.
IndexBefore(a, b) == a.index - b.index < 0

\* Faulty variant: the response taken in the order received.
SortByIndex_MutNoSort(data) == data
\* response.data.sort((a, b) => a.index - b.index): Array.prototype.sort is
\* stable, so items of equal index keep their order, as they do under
\* SortSeq, an insertion sort that moves an item only past items it is
\* strictly before.
SortByIndex(data) == SortSeq(data, IndexBefore)

\* sorted.map((d) => d.embedding)
Embeddings(sorted) == [p \in 1..Len(sorted) |-> sorted[p].embedding]

\* Faulty variant: each vector stored at the place its index names, a place
\* no item names left empty.
AfterBatch_MutByIndex(res, data) ==
    res \o [j \in 1..Len(data) |->
                IF \E k \in 1..Len(data) : data[k].index = j - 1
                THEN data[CHOOSE k \in 1..Len(data) : data[k].index = j - 1].embedding
                ELSE <<0, 0>>]
\* Faulty variant: results kept at module scope, one array shared by all the
\* calls, so a batch is pushed after whatever any call has gathered.
AfterBatch_MutShared(res, data) ==
    results[CHOOSE d \in DOMAIN results :
                \A e \in DOMAIN results : Len(results[e]) <= Len(results[d])]
        \o Embeddings(SortByIndex(data))
\* results.push(...sorted.map((d) => d.embedding)), lines 80-81
AfterBatch(res, data) == res \o Embeddings(SortByIndex(data))

\* Faulty variant: embedSingle destructuring the second element.
Returned_MutSecond(c, res) ==
    IF kind[c] = "embed" THEN [status |-> "returned", value |-> res]
    ELSE IF Len(res) > 1
         THEN [status |-> "returned", value |-> [type |-> "vector", vector |-> res[2]]]
         ELSE [status |-> "returned", value |-> [type |-> "undefined"]]
\* What the caller of call c receives when embed returns res: embed's caller
\* receives res; embedSingle destructures its first element (undefined when
\* there is none), lines 97-98.
Returned(c, res) ==
    IF kind[c] = "embed" THEN [status |-> "returned", value |-> res]
    ELSE IF Len(res) > 0
         THEN [status |-> "returned", value |-> [type |-> "vector", vector |-> res[1]]]
         ELSE [status |-> "returned", value |-> [type |-> "undefined"]]

Thrown(err) == [status |-> "thrown", error |-> err]

\* Faulty variant: the offset advanced by two batches.
NextOffset_MutDouble(off) == off + 2 * BATCH_SIZE

\* i += BATCH_SIZE
NextOffset(off) == off + BATCH_SIZE

\* Faulty variant: the next batch requested together with this one, without
\* awaiting the answer in between.
Loop_MutSendAhead(c, res, off) ==
    /\ i' = [i EXCEPT ![c] = off]
    /\ results' = [results EXCEPT ![c] = res]
    /\ IF off < Len(texts[c])
       THEN /\ pc' = [pc EXCEPT ![c] = "awaiting"]
            /\ requests' = [requests EXCEPT ![c] =
                   IF off + BATCH_SIZE < Len(texts[c])
                   THEN @ \o <<[offset |-> off, model |-> EMBEDDING_MODEL,
                                input |-> SubSeq(texts[c], off + 1, off + BATCH_SIZE)],
                               [offset |-> off + BATCH_SIZE, model |-> EMBEDDING_MODEL,
                                input |-> SubSeq(texts[c], off + BATCH_SIZE + 1,
                                                 Min(off + 2 * BATCH_SIZE, Len(texts[c])))]>>
                   ELSE Append(@, [offset |-> off, model |-> EMBEDDING_MODEL,
                                   input |-> SubSeq(texts[c], off + 1, Len(texts[c]))])]
            /\ outcome' = outcome
       ELSE /\ pc' = [pc EXCEPT ![c] = "returned"]
            /\ requests' = requests
            /\ outcome' = [outcome EXCEPT ![c] = Returned(c, res)]
\* The loop of embed from its test (line 70) with i = off and results = res,
\* up to the next await (line 74) or the return (line 88).
Loop(c, res, off) ==
    /\ i' = [i EXCEPT ![c] = off]
    /\ results' = [results EXCEPT ![c] = res]
    /\ IF off < Len(texts[c])
       THEN /\ pc' = [pc EXCEPT ![c] = "awaiting"]
            /\ requests' = [requests EXCEPT ![c] =
                   Append(@, [offset |-> off, model |-> EMBEDDING_MODEL,
                              input |-> Slice(texts[c], off, off + BATCH_SIZE)])]
            /\ outcome' = outcome
       ELSE /\ pc' = [pc EXCEPT ![c] = "returned"]
            /\ requests' = requests
            /\ outcome' = [outcome EXCEPT ![c] = Returned(c, res)]

\* Faulty variant: the two checks in the other order.
Entry_MutEmptyFirst(cl, txts) ==
    IF Len(txts) = 0 THEN "return" ELSE IF cl = NULL THEN "throw" ELSE "loop"
\* The two checks at the head of embed, lines 58-64, in their order: throw
\* with no client, else return [] on no texts, else go on to the loop.
Entry(cl, txts) ==
    IF cl = NULL THEN "throw" ELSE IF Len(txts) = 0 THEN "return" ELSE "loop"

\* A call of embed(texts[c]), or of embedSingle, which calls
\* embed([text]): from the entry to the first await, return or throw.
Call(c) ==
    /\ pc[c] = "idle"
    /\ CASE Entry(client, texts[c]) = "throw" ->
            /\ pc' = [pc EXCEPT ![c] = "thrown"]
            /\ outcome' = [outcome EXCEPT ![c] = Thrown(NOT_CONFIGURED)]
            /\ UNCHANGED <<i, results, requests>>
         [] Entry(client, texts[c]) = "return" ->
            /\ pc' = [pc EXCEPT ![c] = "returned"]
            /\ outcome' = [outcome EXCEPT ![c] = Returned(c, <<>>)]
            /\ UNCHANGED <<i, results, requests>>
         [] Entry(client, texts[c]) = "loop" -> Loop(c, <<>>, 0)
    /\ UNCHANGED <<configVars, stderr, kind, texts, responses, repertoire, getter, cos>>

Embed(c) == kind[c] = "embed" /\ Call(c)

EmbedSingle(c) == kind[c] = "embedSingle" /\ Call(c)

\* The batch in flight of call c.
InFlight(c) == requests[c][Len(requests[c])]

\* The provider answers the batch in flight: lines 80-81, then the loop.
Resolve(c, b) ==
    /\ pc[c] = "awaiting"
    /\ b \in repertoire.behaviours
    /\ LET data == ProviderData(c, InFlight(c).input, b)
       IN /\ responses' = [responses EXCEPT ![c] = Append(@, [ok |-> TRUE, data |-> data])]
          /\ Loop(c, AfterBatch(results[c], data), NextOffset(i[c]))
    /\ UNCHANGED <<configVars, stderr, kind, texts, repertoire, getter, cos>>

BATCH_ERROR_TEXT == "Error generating embeddings for batch"

\* Faulty variants: the error wrapped with the offset; the error swallowed
\* and the vectors gathered so far returned.
Caught_MutWrap(c, off, err) ==
    Thrown([name |-> "ProviderError", offset |-> off, cause |-> err])
Caught_MutPartial(c, off, err) == [status |-> "returned", value |-> results[c]]
\* catch (error) { console.error(...); throw error; }: what call c, failing
\* at offset off with the provider's error err, settles to.
Caught(c, off, err) == Thrown(err)

\* Faulty variant: the failed batch sent once more.
CatchRequests_MutRetry(reqs) == Append(reqs, reqs[Len(reqs)])
\* The provider invocations made once the catch block of lines 82-85 has
\* run, reqs being those made before it: the block invokes nothing.
CatchRequests(reqs) == reqs

\* The provider fails the batch in flight: lines 82-85.
Reject(c, err) ==
    /\ pc[c] = "awaiting"
    /\ err \in repertoire.errors
    /\ responses' = [responses EXCEPT ![c] = Append(@, [ok |-> FALSE, error |-> err])]
    /\ stderr' = Append(stderr, [text |-> BATCH_ERROR_TEXT, batch |-> i[c], error |-> err])
    /\ pc' = [pc EXCEPT ![c] = "thrown"]
    /\ outcome' = [outcome EXCEPT ![c] = Caught(c, i[c], err)]
    /\ requests' = [requests EXCEPT ![c] = CatchRequests(@)]
    /\ UNCHANGED <<configVars, kind, texts, i, results, repertoire, getter, cos>>

----------------------------------------------------------------------------
(* The getters as operations of the running program.                       *)

GetEmbeddingDimensions ==
    /\ getter' = [op |-> "getEmbeddingDimensions",
                  value |-> getEmbeddingDimensions(EMBEDDING_MODEL)]
    /\ UNCHANGED <<configVars, stderr, callVars, cos>>

IsEmbeddingsEnabled ==
    /\ getter' = [op |-> "isEmbeddingsEnabled", value |-> isEmbeddingsEnabled(client)]
    /\ UNCHANGED <<configVars, stderr, callVars, cos>>

GetModelName ==
    /\ getter' = [op |-> "getModelName", value |-> getModelName(EMBEDDING_MODEL)]
    /\ UNCHANGED <<configVars, stderr, callVars, cos>>

----------------------------------------------------------------------------
(* cosineSimilarity, lines 104-125.                                        *)

\* The three running sums of lines 111-119 after the first n components.
RECURSIVE Sums(_, _, _)
Sums(a, b, n) ==
    IF n = 0 THEN [dot |-> 0, normA |-> 0, normB |-> 0]
    ELSE LET s == Sums(a, b, n - 1)
         IN [dot |-> s.dot + a[n] * b[n],
             normA |-> s.normA + a[n] * a[n],
             normB |-> s.normB + b[n] * b[n]]

\* `Vector dimension mismatch: ${a.length} vs ${b.length}`
MismatchMessage(la, lb) == <<"Vector dimension mismatch: ", la, " vs ", lb>>

\* Faulty variant: only a longer a rejected.
LengthsDiffer_MutLonger(a, b) == Len(a) > Len(b)
\* a.length !== b.length
LengthsDiffer(a, b) == Len(a) # Len(b)

\* Faulty variant: only the first norm tested.
DenominatorIsZero_MutFirstOnly(s) == s.normA = 0
\* denominator === 0, where denominator = Math.sqrt(normA) * Math.sqrt(normB):
\* the product is 0 exactly when one of the two sums of squares is 0 (the
\* components are small integers: no underflow).
DenominatorIsZero(s) == s.normA = 0 \/ s.normB = 0

\* How cosineSimilarity(a, b) ends.  iterations counts the passes of the
\* loop of lines 115-119 made before it ends.  A returned value is either
\* the literal 0 of line 122 (zero) or the quotient of line 124, kept as its
\* exact ingredients: it stands for dot / (sqrt(normA) * sqrt(normB)).
cosineSimilarity(a, b) ==
    IF LengthsDiffer(a, b)
    THEN [status |-> "thrown",
          error |-> [name |-> "Error", message |-> MismatchMessage(Len(a), Len(b))],
          iterations |-> 0]
    ELSE LET s == Sums(a, b, Len(a))
         IN IF DenominatorIsZero(s)
            THEN [status |-> "returned", zero |-> TRUE,
                  dot |-> 0, normA |-> s.normA, normB |-> s.normB,
                  iterations |-> Len(a)]
            ELSE [status |-> "returned", zero |-> FALSE,
                  dot |-> s.dot, normA |-> s.normA, normB |-> s.normB,
                  iterations |-> Len(a)]

Components == { -1, 0, 1, 2 }
Vectors == UNION { [1..n -> Components] : n \in 0..MaxDim }

\* One call of cosineSimilarity on the arguments drawn for it.
CosineSimilarity ==
    /\ ~cos.called
    /\ cos' = [called |-> TRUE, a |-> cos.a, b |-> cos.b,
               out |-> cosineSimilarity(cos.a, cos.b)]
    /\ UNCHANGED <<configVars, stderr, callVars, getter>>

----------------------------------------------------------------------------
(* The environments, inputs and initial states of the explorations.        *)

KeyValues(k) == { UNDEFINED, "", k }
UrlValues == { UNDEFINED, "", "http://localhost:8080/v1" }
ModelValues ==
    { UNDEFINED, "", "custom/embedding-model", "constructor" }
        \cup DOMAIN MODEL_DIMENSIONS

AllEnvs ==
    [OPENAI_API_KEY : KeyValues("sk-openai"),
     OPENROUTER_API_KEY : KeyValues("sk-or"),
     OPENAI_BASE_URL : UrlValues,
     QMD_EMBEDDING_MODEL : ModelValues]

\* One environment per way of resolving the credential: primary only,
\* secondary only, none.
EmbedEnvs ==
    { e \in AllEnvs :
        /\ e.OPENAI_BASE_URL = UNDEFINED
        /\ e.QMD_EMBEDDING_MODEL = UNDEFINED
        /\ e.OPENAI_API_KEY # ""
        /\ e.OPENROUTER_API_KEY # ""
        /\ ~(Truthy(e.OPENAI_API_KEY) /\ Truthy(e.OPENROUTER_API_KEY)) }

\* The input of length n: n distinct texts.
TextsOfLen(n) == [k \in 1..n |-> k]

\* Lengths around the batch boundaries, up to MaxLen.
Lens ==
    (0..Min(2, MaxLen))
        \cup { n \in 0..MaxLen : n % BATCH_SIZE \in { 0, 1, BATCH_SIZE \div 2, BATCH_SIZE - 1 } }
        \cup { MaxLen }

Inputs(lens) == { TextsOfLen(n) : n \in lens } \cup { <<1, 1>> }

FullRepertoire == [behaviours |-> Behaviours, errors |-> ProviderErrors]
SmallRepertoire ==
    [behaviours |-> { "inOrder", "reversed" },
     errors |-> { [name |-> "RateLimitError", status |-> 429] }]

\* The state once the module is loaded from environment e, with the calls
\* ids about to be made on inputs of `inputs`.
InitWith(envs, ids, inputs, rep, vectors) ==
    /\ env \in envs
    /\ API_KEY = API_KEY_of(env)
    /\ BASE_URL = BASE_URL_of(env)
    /\ EMBEDDING_MODEL = EMBEDDING_MODEL_of(env)
    /\ client = client_of(env)
    /\ stderr = LoadLog(env)
    /\ kind \in [ids -> { "embed", "embedSingle" }]
    /\ texts \in [ids -> inputs]
    /\ \A c \in ids : kind[c] = "embedSingle" => Len(texts[c]) = 1
    /\ pc = [c \in ids |-> "idle"]
    /\ i = [c \in ids |-> 0]
    /\ results = [c \in ids |-> <<>>]
    /\ outcome = [c \in ids |-> [status |-> "pending"]]
    /\ requests = [c \in ids |-> <<>>]
    /\ responses = [c \in ids |-> <<>>]
    /\ repertoire = rep
    /\ getter = [op |-> "none"]
    /\ cos \in [called : { FALSE }, a : vectors, b : vectors]

Calls == DOMAIN pc

EmbedStep ==
    \/ \E c \in Calls : Embed(c)
    \/ \E c \in Calls : EmbedSingle(c)
    \/ \E c \in Calls : \E b \in Behaviours : Resolve(c, b)
    \/ \E c \in Calls : \E err \in ProviderErrors : Reject(c, err)

GetterStep ==
    \/ GetEmbeddingDimensions
    \/ IsEmbeddingsEnabled
    \/ GetModelName

\* The whole program on every environment: one call on a short input or on
\* an input one longer than a batch, and the getters.
Init ==
    InitWith(AllEnvs, { 1 }, Inputs((0..Min(1, MaxLen)) \cup { BATCH_SIZE + 1 }),
             SmallRepertoire, { <<>> })
Next == EmbedStep \/ GetterStep
Spec == Init /\ [][Next]_vars

\* The batching protocol: one call on inputs up to MaxLen, the provider free
\* to answer in any of its behaviours.
InitEmbed == InitWith(EmbedEnvs, { 1 }, Inputs(Lens), FullRepertoire, { <<>> })
SpecEmbed == InitEmbed /\ [][EmbedStep]_vars

\* The same, every step that can be taken eventually taken: a call made is
\* started, and the provider settles every request it was sent (the await of
\* line 74 ends, by an answer or by an error).
SpecEmbedFair == InitEmbed /\ [][EmbedStep]_vars /\ WF_vars(EmbedStep)

\* Concurrent calls: MaxCalls calls, each on an empty input, on one text or
\* on an input one longer than a batch, interleaved at their awaits, and the
\* getters.
InitConc ==
    InitWith(EmbedEnvs, 1..MaxCalls, { TextsOfLen(n) : n \in { 0, 1, BATCH_SIZE + 1 } },
             SmallRepertoire, { <<>> })
SpecConc == InitConc /\ [][Next]_vars

\* cosineSimilarity on every pair of vectors up to MaxDim components.
InitCos == InitWith({ [OPENAI_API_KEY |-> UNDEFINED, OPENROUTER_API_KEY |-> UNDEFINED,
                       OPENAI_BASE_URL |-> UNDEFINED, QMD_EMBEDDING_MODEL |-> UNDEFINED] },
                    {}, {}, SmallRepertoire, Vectors)
NextCos == CosineSimilarity
SpecCos == InitCos /\ [][NextCos]_vars

----------------------------------------------------------------------------
(* Properties.                                                             *)

Done(c) == pc[c] \in { "returned", "thrown" }

Last(s) == s[Len(s)]

\* Whether call c was failed by the provider.
ProviderFailed(c) == Len(responses[c]) > 0 /\ ~Last(responses[c]).ok

\* data keeps the provider's contract for a batch of n strings: one item per
\* string, every index 0..n-1 once.
KeepsContract(data, n) ==
    /\ Len(data) = n
    /\ { data[k].index : k \in 1..Len(data) } = 0..(n - 1)

\* Every answer call c has had so far is a success that keeps the contract.
Conforming(c) ==
    \A k \in 1..Len(responses[c]) :
        /\ responses[c][k].ok
        /\ KeepsContract(responses[c][k].data, Len(requests[c][k].input))

\* The vector data associates with index j.
Associated(data, j) ==
    data[CHOOSE k \in 1..Len(data) : data[k].index = j].embedding

\* Whether some answer to call c lists its items out of index order.
OutOfOrder(c) ==
    \E k \in 1..Len(responses[c]) :
        /\ responses[c][k].ok
        /\ \E m \in 1..Len(responses[c][k].data) : responses[c][k].data[m].index # m - 1

\* C1: an embed call that returns, the provider having kept its contract
\* for every batch, returns as many vectors as there are texts, and vector p
\* is the one the provider's answer to p's batch associated with p's index
\* in that batch, whatever the order of the items inside each answer.
C1_ResultFollowsInput ==
    \A c \in Calls :
        (kind[c] = "embed" /\ pc[c] = "returned" /\ Conforming(c)) =>
            /\ Len(outcome[c].value) = Len(texts[c])
            /\ \A p \in 1..Len(texts[c]) :
                outcome[c].value[p] =
                    Associated(responses[c][((p - 1) \div BATCH_SIZE) + 1].data,
                               (p - 1) % BATCH_SIZE)

C1_Witness ==
    \E c \in Calls :
        /\ kind[c] = "embed" /\ pc[c] = "returned" /\ Conforming(c)
        /\ Len(texts[c]) > BATCH_SIZE
        /\ OutOfOrder(c)

RECURSIVE Concat(_, _)
\* The inputs of the first n requests of reqs, one after the other.
Concat(reqs, n) == IF n = 0 THEN <<>> ELSE Concat(reqs, n - 1) \o reqs[n].input

\* C2: the batches sent for an input are consecutive slices of it: every
\* batch but the last sent has exactly 100 items, every batch has between 1
\* and 100, the batches sent so far laid end to end are a prefix of texts and,
\* once the call has returned, texts itself; and with a provider that keeps
\* its contract the result lists the vectors of texts[1], texts[2], ... in
\* that order across the batch boundaries.
C2_ConsecutiveBatches ==
    \A c \in Calls :
        LET reqs == requests[c]
            sent == Concat(reqs, Len(reqs))
        IN /\ \A k \in 1..Len(reqs) :
                /\ Len(reqs[k].input) >= 1
                /\ Len(reqs[k].input) <= 100
                /\ k < Len(reqs) => Len(reqs[k].input) = 100
           /\ Len(sent) <= Len(texts[c])
           /\ sent = SubSeq(texts[c], 1, Len(sent))
           /\ pc[c] = "returned" => sent = texts[c]
           /\ (kind[c] = "embed" /\ pc[c] = "returned" /\ Conforming(c)) =>
                outcome[c].value = [p \in 1..Len(texts[c]) |-> Vector(c, texts[c][p])]

C2_Witness ==
    \E c \in Calls :
        /\ kind[c] = "embed" /\ pc[c] = "returned" /\ Conforming(c)
        /\ Len(texts[c]) = 250
        /\ Len(requests[c]) = 3
        /\ Len(requests[c][1].input) = 100
        /\ Len(requests[c][2].input) = 100
        /\ Len(requests[c][3].input) = 50
        /\ Len(outcome[c].value) = 250

\* C3: when the provider fails a batch, that batch is the last one sent, the
\* call has thrown and its caller has received no vector sequence, however
\* many batches had completed before.
C3_FailureAborts ==
    \A c \in Calls :
        \A k \in 1..Len(responses[c]) :
            ~responses[c][k].ok =>
                /\ k = Len(responses[c])
                /\ Len(requests[c]) = k
                /\ pc[c] = "thrown"
                /\ outcome[c].status = "thrown"

C3_Witness ==
    \E c \in Calls :
        /\ ProviderFailed(c)
        /\ Len(responses[c]) = 2
        /\ Len(results[c]) = BATCH_SIZE
        /\ Len(texts[c]) > 2 * BATCH_SIZE
        /\ outcome[c].status = "thrown"

\* C4: while no credential is resolved no provider invocation is ever made,
\* and every call made, whatever its input, has thrown the not-configured
\* error.
C4_DisabledFails ==
    ~Truthy(API_KEY) =>
        \A c \in Calls :
            /\ requests[c] = <<>>
            /\ pc[c] # "idle" =>
                (pc[c] = "thrown" /\ outcome[c] = Thrown(NOT_CONFIGURED))

C4_Witness ==
    /\ ~Truthy(API_KEY)
    /\ \E c \in Calls :
        /\ Len(texts[c]) > BATCH_SIZE
        /\ pc[c] = "thrown"
        /\ outcome[c] = Thrown(NOT_CONFIGURED)
        /\ requests[c] = <<>>

\* C5 as claimed: every finished embed([]) has returned the empty sequence
\* and made no provider invocation.
C5_Original ==
    \A c \in Calls :
        (kind[c] = "embed" /\ texts[c] = <<>> /\ Done(c)) =>
            /\ outcome[c] = [status |-> "returned", value |-> <<>>]
            /\ requests[c] = <<>>

\* C5 amended: a finished embed([]) has made no provider invocation; it has
\* returned the empty sequence if a credential was resolved and has thrown
\* the not-configured error if none was.
C5_EmptyInput ==
    \A c \in Calls :
        (kind[c] = "embed" /\ texts[c] = <<>> /\ Done(c)) =>
            /\ requests[c] = <<>>
            /\ Truthy(API_KEY) => outcome[c] = [status |-> "returned", value |-> <<>>]
            /\ ~Truthy(API_KEY) => outcome[c] = Thrown(NOT_CONFIGURED)

C5_Witness ==
    \E c \in Calls :
        /\ kind[c] = "embed" /\ texts[c] = <<>>
        /\ Truthy(API_KEY)
        /\ outcome[c] = [status |-> "returned", value |-> <<>>]
        /\ requests[c] = <<>>

C7_Resolution ==
    LET primary == env.OPENAI_API_KEY
        secondary == env.OPENROUTER_API_KEY
        override == env.OPENAI_BASE_URL
    IN /\ Truthy(primary) =>
            /\ API_KEY = primary
            /\ BASE_URL = IF Truthy(override) THEN override ELSE "https://api.openai.com/v1"
       /\ (~Truthy(primary) /\ Truthy(secondary)) =>
            /\ API_KEY = secondary
            /\ BASE_URL = "https://openrouter.ai/api/v1"
       /\ (Truthy(primary) \/ Truthy(secondary)) =>
            /\ client # NULL
            /\ client.apiKey = API_KEY
            /\ client.baseURL = BASE_URL

C7_Witness ==
    /\ env.OPENAI_API_KEY = "sk-openai"
    /\ env.OPENROUTER_API_KEY = "sk-or"
    /\ env.OPENAI_BASE_URL = "http://localhost:8080/v1"
    /\ client # NULL
    /\ client.apiKey = "sk-openai"
    /\ client.baseURL = "http://localhost:8080/v1"

\* C8: isEmbeddingsEnabled() is true exactly when a credential was resolved;
\* with no credential the module still loads, writing its warning and
\* nothing else, and no call has failed until embed is invoked; a finished
\* call has thrown the not-configured error exactly when
\* isEmbeddingsEnabled() is false.
C8_EnabledFlag ==
    /\ isEmbeddingsEnabled(client) <=> Truthy(API_KEY)
    /\ getter.op = "isEmbeddingsEnabled" => getter.value = Truthy(API_KEY)
    /\ ~Truthy(API_KEY) <=> (Len(stderr) > 0 /\ stderr[1] = NO_KEY_WARNING)
    /\ \A c \in Calls :
        /\ pc[c] = "idle" => outcome[c] = [status |-> "pending"]
        /\ Done(c) =>
            (outcome[c] = Thrown(NOT_CONFIGURED) <=> ~isEmbeddingsEnabled(client))

C8_Witness ==
    /\ env.OPENAI_API_KEY = UNDEFINED
    /\ env.OPENROUTER_API_KEY = UNDEFINED
    /\ stderr = <<NO_KEY_WARNING>>
    /\ getter.op = "isEmbeddingsEnabled"
    /\ getter.value = FALSE
    /\ \E c \in Calls : outcome[c] = Thrown(NOT_CONFIGURED)

\* The dimension the claim gives for a resolved model.
ClaimedDimensions(model) ==
    CASE model = "openai/text-embedding-3-small" -> 1536
      [] model = "openai/text-embedding-3-large" -> 3072
      [] model = "cohere/embed-english-v3.0" -> 1024
      [] model = "cohere/embed-multilingual-v3.0" -> 1024
      [] OTHER -> 1536

\* C9: getEmbeddingDimensions() returns the table's value for a resolved
\* model of the table and 1536 for every other model identifier; with no
\* model configured the resolved model is the default small model.
C9_Dimensions ==
    /\ env.QMD_EMBEDDING_MODEL = UNDEFINED =>
            EMBEDDING_MODEL = "openai/text-embedding-3-small"
    /\ getter.op = "getEmbeddingDimensions" =>
            getter.value = Num(ClaimedDimensions(EMBEDDING_MODEL))

\* C10: cosineSimilarity(a, b) throws exactly when the lengths differ; the
\* error's message gives both lengths and no pass of the loop was made; on
\* equal lengths, two empty vectors too, it returns.
C10_DimensionMismatch ==
    cos.called =>
        /\ cos.out.status = "thrown" <=> Len(cos.a) # Len(cos.b)
        /\ cos.out.status = "returned" <=> Len(cos.a) = Len(cos.b)
        /\ cos.out.status = "thrown" =>
            /\ cos.out.error.message =
                   <<"Vector dimension mismatch: ", Len(cos.a), " vs ", Len(cos.b)>>
            /\ cos.out.iterations = 0

C10_Witness ==
    /\ cos.called
    /\ Len(cos.a) = 2
    /\ Len(cos.b) = 3
    /\ cos.out.status = "thrown"
    /\ cos.out.error.message = <<"Vector dimension mismatch: ", 2, " vs ", 3>>

\* Whether every component of v is 0.
AllZero(v) == \A n \in 1..Len(v) : v[n] = 0

\* The sum of the products of the components at equal places of u and v.
RECURSIVE DotProduct(_, _)
DotProduct(u, v) ==
    IF Len(u) = 0 THEN 0 ELSE Head(u) * Head(v) + DotProduct(Tail(u), Tail(v))

\* The returned value is the number 0: the literal of line 122, or a
\* quotient whose numerator is 0.
ValueIsZero(out) == out.zero \/ out.dot = 0

\* The returned value is the number 1: a positive quotient whose square,
\* dot * dot / (normA * normB), is 1.
ValueIsOne(out) ==
    ~out.zero /\ out.dot > 0 /\ out.dot * out.dot = out.normA * out.normB

\* C11: on vectors of equal length cosineSimilarity returns the literal 0,
\* without dividing, when either vector is all-zero; otherwise it returns
\* the dot product over the product of the two Euclidean norms, which is 0
\* for orthogonal vectors and, in exact arithmetic, 1 for a non-zero vector
\* compared with itself.
C11_CosineValue ==
    (cos.called /\ Len(cos.a) = Len(cos.b)) =>
        /\ cos.out.status = "returned"
        /\ (AllZero(cos.a) \/ AllZero(cos.b)) <=> cos.out.zero
        /\ ~cos.out.zero =>
            /\ cos.out.dot = DotProduct(cos.a, cos.b)
            /\ cos.out.normA = DotProduct(cos.a, cos.a)
            /\ cos.out.normB = DotProduct(cos.b, cos.b)
            /\ cos.out.normA > 0 /\ cos.out.normB > 0
        /\ DotProduct(cos.a, cos.b) = 0 => ValueIsZero(cos.out)
        /\ (cos.a = cos.b /\ ~AllZero(cos.a)) => ValueIsOne(cos.out)

C11_Witness ==
    /\ cos.called
    /\ cos.a = <<0, 0>>
    /\ cos.b = <<1, 2>>
    /\ cos.out.status = "returned"
    /\ cos.out.zero

\* C12: an embedSingle call is the call embed([text]): it makes at most one
\* provider invocation, of the one-item batch [text] at offset 0; with no
\* credential it throws embed's not-configured error without any invocation;
\* when the provider fails it throws the error embed throws, the provider's
\* own; and when embed returns, the provider having kept its contract, it
\* returns the sole element of embed's result, the vector of text.
C12_SingleAsEmbed ==
    \A c \in Calls :
        kind[c] = "embedSingle" =>
            /\ Len(texts[c]) = 1
            /\ Len(requests[c]) <= 1
            /\ \A k \in 1..Len(requests[c]) :
                /\ requests[c][k].offset = 0
                /\ requests[c][k].input = texts[c]
                /\ requests[c][k].model = EMBEDDING_MODEL
            /\ Truthy(API_KEY) => (pc[c] # "idle" <=> Len(requests[c]) = 1)
            /\ (~Truthy(API_KEY) /\ pc[c] # "idle") =>
                (outcome[c] = Thrown(NOT_CONFIGURED) /\ requests[c] = <<>>)
            /\ ProviderFailed(c) => outcome[c] = Thrown(Last(responses[c]).error)
            /\ (pc[c] = "returned" /\ Conforming(c)) =>
                /\ Len(results[c]) = 1
                /\ outcome[c] = [status |-> "returned",
                                 value |-> [type |-> "vector", vector |-> results[c][1]]]
                /\ results[c][1] = Vector(c, texts[c][1])

C12_Witness ==
    \E c \in Calls :
        /\ kind[c] = "embedSingle"
        /\ pc[c] = "returned"
        /\ Len(requests[c]) = 1
        /\ outcome[c] = [status |-> "returned",
                         value |-> [type |-> "vector", vector |-> Vector(c, texts[c][1])]]

RECURSIVE Received(_, _)
\* The number of items in the first n answers of resps, all successes.
Received(resps, n) ==
    IF n = 0 THEN 0 ELSE Received(resps, n - 1) + Len(resps[n].data)

\* The batches of call c awaiting their answer.
Outstanding(c) == Len(requests[c]) - Len(responses[c])

\* C13: within a call at most one batch awaits its answer, and one does
\* exactly while the call is suspended; the batches are requested in
\* strictly ascending offset order; and every batch but the last requested
\* has been answered successfully, the vectors of all the answers received
\* being in results by the time the next batch is requested.
C13_OneBatchAtATime ==
    \A c \in Calls :
        /\ Outstanding(c) \in { 0, 1 }
        /\ pc[c] = "awaiting" <=> Outstanding(c) = 1
        /\ \A k \in 2..Len(requests[c]) :
            requests[c][k].offset > requests[c][k - 1].offset
        /\ \A k \in 1..(Len(requests[c]) - 1) : responses[c][k].ok
        /\ pc[c] = "awaiting" =>
            /\ i[c] = Last(requests[c]).offset
            /\ Len(results[c]) = Received(responses[c], Len(responses[c]))

C13_Witness ==
    \E c \in Calls :
        /\ pc[c] = "awaiting"
        /\ Len(requests[c]) = 3
        /\ Len(responses[c]) = 2
        /\ Len(results[c]) = 2 * BATCH_SIZE
        /\ Last(requests[c]).offset = 2 * BATCH_SIZE

\* C14: no batch is sent twice; a call that has returned on N texts has made
\* exactly ceil(N / 100) provider invocations, and a call failed at its
\* k-th batch, counting from 0, exactly k + 1.
C14_NoRetry ==
    \A c \in Calls :
        /\ \A k, m \in 1..Len(requests[c]) :
            k # m => requests[c][k].offset # requests[c][m].offset
        /\ pc[c] = "returned" => Len(requests[c]) = (Len(texts[c]) + 99) \div 100
        /\ ProviderFailed(c) =>
            /\ pc[c] = "thrown"
            /\ Len(requests[c]) = (i[c] \div 100) + 1
            /\ Len(requests[c]) = Len(responses[c])

C14_Witness ==
    \E c \in Calls :
        /\ ProviderFailed(c)
        /\ i[c] = 2 * BATCH_SIZE
        /\ Len(requests[c]) = 3

\* The vectors of the first n texts of call c, as the provider computes them
\* for c.
OwnVectors(c, n) == [p \in 1..n |-> Vector(c, texts[c][p])]

\* What call c settles to on its own: from the configuration, its own texts
\* and the provider's answers to its own batches, the provider keeping its
\* contract.
OwnOutcome(c) ==
    IF ~Truthy(API_KEY) THEN Thrown(NOT_CONFIGURED)
    ELSE IF ProviderFailed(c) THEN Thrown(Last(responses[c]).error)
    ELSE IF kind[c] = "embed"
         THEN [status |-> "returned", value |-> OwnVectors(c, Len(texts[c]))]
         ELSE [status |-> "returned",
               value |-> [type |-> "vector", vector |-> Vector(c, texts[c][1])]]

\* C15: with several calls in progress together, interleaved at their
\* awaits, every batch a call sends is a slice of its own texts, the vectors
\* it has gathered are those the provider computed for it, in the order of
\* its own texts, what it settles to is what it settles to on its own, and
\* the configuration stays as resolved from the environment through every
\* embed, embedSingle and getter call.
C15_CallsIndependent ==
    /\ API_KEY = API_KEY_of(env)
    /\ BASE_URL = BASE_URL_of(env)
    /\ EMBEDDING_MODEL = EMBEDDING_MODEL_of(env)
    /\ client = client_of(env)
    /\ \A c \in Calls :
        /\ \A k \in 1..Len(requests[c]) :
            requests[c][k].input =
                SubSeq(texts[c], requests[c][k].offset + 1,
                       requests[c][k].offset + Len(requests[c][k].input))
        /\ \A p \in 1..Len(results[c]) : results[c][p][1] = c
        /\ pc[c] \in { "awaiting", "returned" } =>
            results[c] = OwnVectors(c, Len(results[c]))
        /\ Done(c) => outcome[c] = OwnOutcome(c)

C15_Witness ==
    \E c, d \in Calls :
        /\ c # d
        /\ pc[c] = "awaiting" /\ Len(responses[c]) = 1 /\ Len(results[c]) = BATCH_SIZE
        /\ pc[d] = "awaiting" /\ Len(responses[d]) = 1 /\ Len(results[d]) = BATCH_SIZE
        /\ getter.op = "getModelName"

\* C16: the client carries the OpenRouter headers exactly when the secondary
\* credential is present and the primary is absent, which is when the
\* secondary credential is the client's key; with the primary present it
\* carries none, the secondary being present or not.
C16_SecondaryHeaders ==
    client # NULL =>
        /\ client.defaultHeaders = OPENROUTER_HEADERS <=>
            (Truthy(env.OPENROUTER_API_KEY) /\ ~Truthy(env.OPENAI_API_KEY))
        /\ client.defaultHeaders = OPENROUTER_HEADERS <=>
            client.apiKey = env.OPENROUTER_API_KEY
        /\ client.defaultHeaders # OPENROUTER_HEADERS => client.defaultHeaders = {}
        /\ Truthy(env.OPENAI_API_KEY) => client.defaultHeaders = {}

C16_Witness ==
    /\ env.OPENAI_API_KEY = "sk-openai"
    /\ env.OPENROUTER_API_KEY = "sk-or"
    /\ client # NULL
    /\ client.apiKey = "sk-openai"
    /\ client.defaultHeaders = {}

\* The vectors of answer k to call c as embed appends them.
Segment(c, k) ==
    SubSeq(results[c], Received(responses[c], k - 1) + 1, Received(responses[c], k))

\* The result of a returned call c does not follow texts: its length differs,
\* or at some place p stands a vector that the answer to p's batch does not
\* give, once and only once, for p's index in the batch.
Broken(c) ==
    \/ Len(outcome[c].value) # Len(texts[c])
    \/ \E p \in 1..Len(texts[c]) :
        LET data == responses[c][((p - 1) \div BATCH_SIZE) + 1].data
            named == { k \in 1..Len(data) : data[k].index = (p - 1) % BATCH_SIZE }
        IN \/ Cardinality(named) # 1
           \/ \E k \in named : data[k].embedding # outcome[c].value[p]

\* C17: embed does not validate an answer.  A call throws only for want of
\* a credential or because the provider failed; the vectors gathered are, for
\* each answer in turn, exactly the vectors of that answer ordered by their
\* index, so their number is the sum of the sizes of the answers; and a call
\* that returns after an answer that breaks the provider's contract (too
\* few or too many items, an index repeated or skipped) returns a result
\* that does not follow texts.
C17_NoValidation ==
    \A c \in Calls :
        kind[c] = "embed" =>
            /\ pc[c] = "thrown" => (~Truthy(API_KEY) \/ ProviderFailed(c))
            /\ pc[c] \in { "awaiting", "returned" } =>
                /\ Len(results[c]) = Received(responses[c], Len(responses[c]))
                /\ \A k \in 1..Len(responses[c]) :
                    Segment(c, k) = Embeddings(SortSeq(responses[c][k].data, IndexBefore))
            /\ pc[c] = "returned" =>
                /\ outcome[c] = [status |-> "returned", value |-> results[c]]
                /\ ~Conforming(c) => Broken(c)

C17_Witness ==
    \E c \in Calls :
        /\ kind[c] = "embed" /\ pc[c] = "returned"
        /\ Len(texts[c]) = 2 * BATCH_SIZE
        /\ Len(responses[c][1].data) = BATCH_SIZE - 1
        /\ Len(responses[c][2].data) = BATCH_SIZE + 1
        /\ Len(outcome[c].value) = Len(texts[c])
        /\ Broken(c)

\* Every call has ended.
AllDone == \A c \in Calls : Done(c)

\* The offset of a call changes only by one batch, and only from an offset
\* short of the end of the input.
OffsetStep ==
    \A c \in Calls :
        i'[c] # i[c] => (i'[c] = i[c] + BATCH_SIZE /\ i[c] < Len(texts[c]))

\* An enabled call that ended stopped at the first failure, the offset still
\* short of the end of the input and the failed request its last, or
\* returned when the offset had reached the end, one request per batch.
StopsWhereItShould ==
    \A c \in Calls :
        (Done(c) /\ Truthy(API_KEY)) =>
            /\ \A k \in 1..(Len(responses[c]) - 1) : responses[c][k].ok
            /\ Len(requests[c]) = Len(responses[c])
            /\ \A k \in 1..Len(requests[c]) : requests[c][k].offset = (k - 1) * BATCH_SIZE
            /\ IF ProviderFailed(c)
               THEN /\ pc[c] = "thrown"
                    /\ i[c] < Len(texts[c])
                    /\ i[c] = (Len(requests[c]) - 1) * BATCH_SIZE
               ELSE /\ pc[c] = "returned"
                    /\ i[c] >= Len(texts[c])
                    /\ i[c] < Len(texts[c]) + BATCH_SIZE
                    /\ i[c] = Len(requests[c]) * BATCH_SIZE

\* C18: provided the provider settles every request, every call ends, by a
\* result or by a failure; the offset grows by exactly 100 per iteration,
\* and the loop stops at the first failure or once the offset has reached
\* the length of the input.
C18_Terminates ==
    /\ <>[]AllDone
    /\ [][OffsetStep]_vars
    /\ []StopsWhereItShould

C18_Witness ==
    \E c \in Calls :
        /\ kind[c] = "embed" /\ pc[c] = "returned"
        /\ Len(texts[c]) > 2 * BATCH_SIZE
        /\ Len(requests[c]) = 3
        /\ i[c] = 3 * BATCH_SIZE

\* A setting that is present: neither unset nor the empty string.
Present(v) == v # UNDEFINED /\ v # ""

\* The environment e with every setting that is the empty string unset.
Unset(e) == [n \in DOMAIN e |-> IF e[n] = "" THEN UNDEFINED ELSE e[n]]

\* C19: a setting that is the empty string acts exactly as one that is
\* unset: the client, the endpoint, the model and the warning are those of
\* the environment with its empty settings unset.  An empty primary
\* credential beside a secondary one selects the secondary credential, its
\* endpoint and its headers; with no credential present there is no client;
\* an empty endpoint override or model setting gives the default.
C19_EmptyIsUnset ==
    /\ client = client_of(Unset(env))
    /\ BASE_URL = BASE_URL_of(Unset(env))
    /\ EMBEDDING_MODEL = EMBEDDING_MODEL_of(Unset(env))
    /\ (Len(stderr) > 0 /\ stderr[1] = NO_KEY_WARNING) <=> LoadLog(Unset(env)) # <<>>
    /\ (env.OPENAI_API_KEY = "" /\ Present(env.OPENROUTER_API_KEY)) =>
        client = [apiKey |-> env.OPENROUTER_API_KEY, baseURL |-> OPENROUTER_URL,
                  defaultHeaders |-> OPENROUTER_HEADERS]
    /\ (~Present(env.OPENAI_API_KEY) /\ ~Present(env.OPENROUTER_API_KEY)) =>
        /\ client = NULL
        /\ getter.op = "isEmbeddingsEnabled" => getter.value = FALSE
    /\ (Present(env.OPENAI_API_KEY) /\ env.OPENAI_BASE_URL = "") =>
        /\ BASE_URL = OPENAI_DEFAULT_URL
        /\ client.baseURL = OPENAI_DEFAULT_URL
    /\ env.QMD_EMBEDDING_MODEL = "" =>
        /\ EMBEDDING_MODEL = DEFAULT_MODEL
        /\ \A c \in Calls : \A k \in 1..Len(requests[c]) :
            requests[c][k].model = DEFAULT_MODEL

C19_Witness ==
    /\ env = [OPENAI_API_KEY |-> "", OPENROUTER_API_KEY |-> "sk-or",
              OPENAI_BASE_URL |-> "", QMD_EMBEDDING_MODEL |-> ""]
    /\ client # NULL
    /\ client.apiKey = "sk-or"
    /\ client.defaultHeaders = OPENROUTER_HEADERS
    /\ \E c \in Calls : pc[c] = "returned" /\ Len(requests[c]) = 2

====
